---------------------------- MODULE Spec2Model ----------------------------
(***************************************************************************)
(* go-todo: an HTTP service with four handlers (fetchTodos, createTodo,    *)
(* updateTodo, deleteTodo) over one MongoDB collection reached through a   *)
(* single shared mgo handle, and a main function that serves in a          *)
(* background goroutine and shuts the server down on an interrupt.         *)
(*                                                                         *)
(* Strings that the code inspects character by character (the path id,     *)
(* the hex form of an object id) are sequences of one-character strings.   *)
(* Titles are only compared with "" and are plain strings.                 *)
(*                                                                         *)
(* The driver calls (Insert, Find.All, Update, RemoveId, the bson object   *)
(* id functions) are modelled by what mgo.v2 does in a safe-mode session   *)
(* (the mode mgo.Dial returns) against a reachable server, and the bson    *)
(* mapping of todoModel is taken to marshal and unmarshal its four fields. *)
(***************************************************************************)
EXTENDS Integers, Sequences, FiniteSets, TLC

(* ------------------------------ bounds --------------------------------- *)
MaxTodos == 2        \* object ids the service hands out in one run
MaxClock == 2        \* last clock value reached while no shutdown is pending
MaxWorkers == 2      \* requests the server handles at the same time

(* --------------------------- program constants ------------------------- *)
StatusOK == 200
StatusCreated == 201
StatusBadRequest == 400
StatusProcessing == 102
ObjectIdHexLen == 24
ShutdownTimeout == 5
ZeroTime == 0
CounterModulus == 16777216

Workers == 1..MaxWorkers

VARIABLES
    db,               \* documents of collection "todos" behind the shared handle
    objectIdCounter,  \* the bson package's object id counter
    now,              \* the clock, in seconds
    inflight,         \* workers whose request was accepted and has not finished
    mainPc,           \* main goroutine: "wait", "shutdown", "returned"
    srvPc,            \* background goroutine: "start", "listening", "fatal"
    proc,             \* the process: "running" or "exited"
    deadline,         \* expiry of the shutdown context, 0 before it exists
    killed,           \* requests still in flight when the process exited
    last,             \* the request handled last and its response
    createdIds,       \* todo_id strings returned by 201 responses
    okDeletes,        \* per id, the number of deletes answered 200
    peers             \* per id, the requests that were in flight when a delete
                      \* of it was answered 200 and have not finished since

vars == <<db, objectIdCounter, now, inflight, mainPc, srvPc, proc, deadline,
          killed, last, createdIds, okDeletes, peers>>

(* ------------------------- strings and object ids ---------------------- *)
HexChars == <<"0","1","2","3","4","5","6","7","8","9","a","b","c","d","e","f">>
UpperHexChars == <<"0","1","2","3","4","5","6","7","8","9","A","B","C","D","E","F">>
SpaceChars == {" ", "\t", "\n", "\r"}

\* encoding/hex fromHexChar: the value of a hex digit of either case, -1 otherwise
HexValTable ==
    [c \in {HexChars[i] : i \in 1..16} \cup {UpperHexChars[i] : i \in 1..16} |->
        (CHOOSE i \in 1..16 : HexChars[i] = c \/ UpperHexChars[i] = c) - 1]
HexVal(c) == IF c \in DOMAIN HexValTable THEN HexValTable[c] ELSE -1

\* Hex with the digits of the %X verb
Hex_Upper(oid) ==
    [i \in 1..(2 * Len(oid)) |->
        IF i % 2 = 1 THEN UpperHexChars[(oid[(i + 1) \div 2] \div 16) + 1]
                     ELSE UpperHexChars[(oid[i \div 2] % 16) + 1]]

\* bson.ObjectId.Hex: two lowercase hex digits per byte
Hex(oid) ==
    [i \in 1..(2 * Len(oid)) |->
        IF i % 2 = 1 THEN HexChars[(oid[(i + 1) \div 2] \div 16) + 1]
                     ELSE HexChars[(oid[i \div 2] % 16) + 1]]

\* IsObjectIdHex that only looks at the length
IsObjectIdHex_LengthOnly(s) == Len(s) = ObjectIdHexLen

\* bson.IsObjectIdHex: 24 characters that decode as hex
IsObjectIdHex(s) ==
    /\ Len(s) = ObjectIdHexLen
    /\ \A i \in 1..Len(s) : HexVal(s[i]) >= 0

\* bson.ObjectIdHex: the 12 bytes a hex string stands for
ObjectIdHex(s) ==
    [i \in 1..(Len(s) \div 2) |-> 16 * HexVal(s[2 * i - 1]) + HexVal(s[2 * i])]

\* strings.TrimSpace: drop leading and trailing white space
TrimSpace(s) ==
    IF \A i \in 1..Len(s) : s[i] \in SpaceChars THEN <<>>
    ELSE SubSeq(s,
                CHOOSE i \in 1..Len(s) :
                    s[i] \notin SpaceChars /\ \A j \in 1..(i - 1) : s[j] \in SpaceChars,
                CHOOSE i \in 1..Len(s) :
                    s[i] \notin SpaceChars /\ \A j \in (i + 1)..Len(s) : s[j] \in SpaceChars)

MachineId == <<171, 205, 239>>
ProcessId == <<18, 52>>

\* bson.NewObjectId: 4 bytes of time, 3 of machine, 2 of pid, 3 of counter
NewObjectId(t, counter) ==
    << (t \div 16777216) % 256, (t \div 65536) % 256, (t \div 256) % 256, t % 256 >>
    \o MachineId \o ProcessId \o
    << (counter \div 65536) % 256, (counter \div 256) % 256, counter % 256 >>

(* ------------------------------ the driver ----------------------------- *)
NoErr == "nil"
ErrNotFound == "not found"
ErrDup == "duplicate key"

HasId(c, oid) == \E d \in c : d._id = oid
DocOf(c, oid) == CHOOSE d \in c : d._id = oid

\* Collection.Insert: _id is unique in a collection
Insert(c, doc) ==
    IF HasId(c, doc._id) THEN [err |-> ErrDup, coll |-> c]
    ELSE [err |-> NoErr, coll |-> c \cup {doc}]

\* Collection.Find(bson.M{}).All
FindAll(c) == [err |-> NoErr, docs |-> c]

\* Update where Upsert was meant to be avoided: a missing document is inserted
Update_Upsert(c, oid, upd) ==
    [err |-> NoErr, coll |-> {d \in c : d._id # oid} \cup {[_id |-> oid] @@ upd}]

\* Collection.Update with an update document that has no $ operator: the
\* matched document is replaced by the update document, keeping its _id
Update(c, oid, upd) ==
    IF HasId(c, oid)
    THEN [err |-> NoErr, coll |-> (c \ {DocOf(c, oid)}) \cup {[_id |-> oid] @@ upd}]
    ELSE [err |-> ErrNotFound, coll |-> c]

\* RemoveId whose selector matches every document
RemoveId_Wipes(c, oid) ==
    IF HasId(c, oid) THEN [err |-> NoErr, coll |-> {}]
    ELSE [err |-> ErrNotFound, coll |-> c]

\* RemoveId in a session that is not in safe mode: nothing is reported
RemoveId_Unsafe(c, oid) == [err |-> NoErr, coll |-> {d \in c : d._id # oid}]

\* RemoveId that acknowledges a document it finds and leaves it in place
RemoveId_KeepsDocument(c, oid) ==
    IF HasId(c, oid) THEN [err |-> NoErr, coll |-> c]
    ELSE [err |-> ErrNotFound, coll |-> c]

\* Collection.RemoveId
RemoveId(c, oid) ==
    IF HasId(c, oid) THEN [err |-> NoErr, coll |-> c \ {DocOf(c, oid)}]
    ELSE [err |-> ErrNotFound, coll |-> c]

(* --------------------------- wire and storage -------------------------- *)
\* json.Decoder.Decode into a todo: absent fields keep their zero value
Decode(body) ==
    IF ~body.valid THEN [err |-> "decode", t |-> [Title |-> "", Completed |-> FALSE]]
    ELSE [err |-> NoErr,
          t |-> [Title |-> IF "title" \in DOMAIN body.fields
                           THEN body.fields.title ELSE "",
                 Completed |-> IF "completed" \in DOMAIN body.fields
                               THEN body.fields.completed ELSE FALSE]]

\* the todo a listed document is rendered as (fetchTodos' loop body)
ToTodo(d) ==
    [ID |-> Hex(d._id), Title |-> d.title, Completed |-> d.completed,
     CreatedAt |-> IF "created_at" \in DOMAIN d THEN d.created_at ELSE ZeroTime]

NoId == <<>>
Response(status, message, id, data) ==
    [status |-> status, message |-> message, todo_id |-> id, data |-> data]

(* ------------------------------ handlers ------------------------------- *)
\* What a handler does with a request in a given collection: resp is the
\* response, coll the collection and counter the object id counter after it.
Result(resp, c, counter) == [resp |-> resp, coll |-> c, counter |-> counter]

fetchTodosResult(c, counter) ==
    LET r == FindAll(c)
    IN  IF r.err # NoErr
        THEN Result(Response(StatusProcessing, "Failed to fetch the Todos.", NoId, {}),
                    c, counter)
        ELSE Result(Response(StatusOK, "", NoId, {ToTodo(d) : d \in r.docs}),
                    c, counter)

\* createTodo without its title check
createTodoResult_NoTitleCheck(c, counter, t0, body) ==
    LET dec == Decode(body)
        t == dec.t
        next == (counter + 1) % CounterModulus
        tm == [_id |-> NewObjectId(t0, next),
               title |-> t.Title, completed |-> t.Completed, created_at |-> t0]
        ins == Insert(c, tm)
    IN  IF dec.err # NoErr
        THEN Result(Response(StatusProcessing, "", NoId, {}), c, counter)
        ELSE IF ins.err # NoErr
        THEN Result(Response(StatusProcessing, "Failed to save todo.", NoId, {}),
                    ins.coll, next)
        ELSE Result(Response(StatusCreated, "Todo created successfully!", Hex(tm._id), {}),
                    ins.coll, next)

createTodoResult(c, counter, t0, body) ==
    LET dec == Decode(body)
        t == dec.t
        next == (counter + 1) % CounterModulus
        tm == [_id |-> NewObjectId(t0, next),
               title |-> t.Title, completed |-> t.Completed, created_at |-> t0]
        ins == Insert(c, tm)
    IN  IF dec.err # NoErr
        THEN Result(Response(StatusProcessing, "", NoId, {}), c, counter)
        ELSE IF t.Title = ""
        THEN Result(Response(StatusBadRequest, "Todo had no title!", NoId, {}),
                    c, counter)
        ELSE IF ins.err # NoErr
        THEN Result(Response(StatusProcessing, "Failed to save todo.", NoId, {}),
                    ins.coll, next)
        ELSE Result(Response(StatusCreated, "Todo created successfully!", Hex(tm._id), {}),
                    ins.coll, next)

deleteTodoResult(c, counter, path) ==
    LET id == TrimSpace(path)
        rm == RemoveId(c, ObjectIdHex(id))
    IN  IF ~IsObjectIdHex(id)
        THEN Result(Response(StatusBadRequest, "Id is invalid!", NoId, {}),
                    c, counter)
        ELSE IF rm.err # NoErr
        THEN Result(Response(StatusProcessing, "Failed to delete todo!", id, {}),
                    rm.coll, counter)
        ELSE Result(Response(StatusOK, "Todo deleted succesfully!", id, {}),
                    rm.coll, counter)

\* updateTodo without its title check
updateTodoResult_NoTitleCheck(c, counter, path, body) ==
    LET id == TrimSpace(path)
        dec == Decode(body)
        t == dec.t
        up == Update(c, ObjectIdHex(id), [title |-> t.Title, completed |-> t.Completed])
    IN  IF ~IsObjectIdHex(id)
        THEN Result(Response(StatusBadRequest, "The id is invalid!", NoId, {}),
                    c, counter)
        ELSE IF dec.err # NoErr
        THEN Result(Response(StatusProcessing, "", NoId, {}), c, counter)
        ELSE IF up.err # NoErr
        THEN Result(Response(StatusProcessing, "Failed to update todo!", NoId, {}),
                    up.coll, counter)
        ELSE Result(Response(StatusOK, "", NoId, {}), up.coll, counter)

\* the success path writes nothing: net/http then answers 200 with no body
updateTodoResult(c, counter, path, body) ==
    LET id == TrimSpace(path)
        dec == Decode(body)
        t == dec.t
        up == Update(c, ObjectIdHex(id), [title |-> t.Title, completed |-> t.Completed])
    IN  IF ~IsObjectIdHex(id)
        THEN Result(Response(StatusBadRequest, "The id is invalid!", NoId, {}),
                    c, counter)
        ELSE IF dec.err # NoErr
        THEN Result(Response(StatusProcessing, "", NoId, {}), c, counter)
        ELSE IF t.Title = ""
        THEN Result(Response(StatusBadRequest, "The title is empty!", NoId, {}),
                    c, counter)
        ELSE IF up.err # NoErr
        THEN Result(Response(StatusProcessing, "Failed to update todo!", NoId, {}),
                    up.coll, counter)
        ELSE Result(Response(StatusOK, "", NoId, {}), up.coll, counter)

(* ------------------------------- inputs -------------------------------- *)
Rep(ch, n) == [i \in 1..n |-> ch]

NotAnId == <<"n","o","t","-","a","n","-","i","d">>
\* path ids a client sends: the ids it was given, and ids it made up (too
\* short, 24 characters that are not hex, and 24 upper case hex digits that no
\* document has, padded with white space)
PathIds ==
    createdIds
    \cup {NotAnId, Rep("g", ObjectIdHexLen),
          <<" ">> \o Rep("F", ObjectIdHexLen) \o <<" ", "\t">>}

Malformed == [valid |-> FALSE, fields |-> <<>>]
Json(fields) == [valid |-> TRUE, fields |-> fields]
Bodies ==
    {Malformed,
     Json([title |-> "", completed |-> TRUE]),
     Json([title |-> "", completed |-> FALSE]),
     Json([title |-> "a"]),
     Json([title |-> "b", completed |-> TRUE])}

NoBody == Json(<<>>)
NoPath == <<>>

(* ------------------------------- actions ------------------------------- *)
Init ==
    /\ db = {}
    /\ objectIdCounter = 0
    /\ now = 1
    /\ inflight = {}
    /\ mainPc = "wait"
    /\ srvPc = "start"
    /\ proc = "running"
    /\ deadline = 0
    /\ killed = {}
    /\ last = [op |-> "none", path |-> NoPath, body |-> NoBody,
               resp |-> Response(0, "", NoId, {}), raced |-> FALSE]
    /\ createdIds = {}
    /\ okDeletes = <<>>
    /\ peers = <<>>

Lifecycle == <<mainPc, srvPc, proc, deadline, killed>>
History == <<last, createdIds, okDeletes, peers>>

\* the listener accepts a connection and starts the handler's goroutine
Serve(w) ==
    /\ proc = "running"
    /\ srvPc = "listening"
    /\ mainPc = "wait"
    /\ w \notin inflight
    /\ inflight' = inflight \cup {w}
    /\ UNCHANGED <<db, objectIdCounter, now, History, Lifecycle>>

\* the id a path stands for, in the form createTodo returns it (NoId when the
\* path stands for none)
Canonical(path) ==
    LET id == TrimSpace(path)
    IN  IF Len(id) = ObjectIdHexLen /\ \A i \in 1..Len(id) : HexVal(id[i]) >= 0
        THEN Hex(ObjectIdHex(id)) ELSE NoId

\* a handler returns: the collection and the counter are as it left them, the
\* request is no longer in flight, and the history records what happened
Finish(w, op, path, body, r) ==
    LET ok == op = "delete" /\ r.resp.status = StatusOK
        id == Canonical(path)
        gone == [k \in DOMAIN peers |-> peers[k] \ {w}]
    IN  /\ db' = r.coll
        /\ objectIdCounter' = r.counter
        /\ inflight' = inflight \ {w}
        /\ last' = [op |-> op, path |-> path, body |-> body, resp |-> r.resp,
                    raced |-> /\ op = "delete"
                              /\ id \in DOMAIN peers
                              /\ w \in peers[id]]
        /\ createdIds' = IF op = "create" /\ r.resp.status = StatusCreated
                         THEN createdIds \cup {r.resp.todo_id} ELSE createdIds
        /\ okDeletes' = IF ~ok THEN okDeletes
                        ELSE IF id \in DOMAIN okDeletes
                        THEN [okDeletes EXCEPT ![id] = @ + 1]
                        ELSE okDeletes @@ (id :> 1)
        /\ peers' = IF ~ok THEN gone
                    ELSE IF id \in DOMAIN peers
                    THEN [gone EXCEPT ![id] = inflight \ {w}]
                    ELSE gone @@ (id :> (inflight \ {w}))
        /\ UNCHANGED <<now, Lifecycle>>

fetchTodos(w) ==
    /\ proc = "running"
    /\ w \in inflight
    /\ Finish(w, "fetch", NoPath, NoBody, fetchTodosResult(db, objectIdCounter))

createTodo(w) ==
    /\ proc = "running"
    /\ w \in inflight
    /\ \E body \in Bodies :
        /\ createTodoResult(db, objectIdCounter, now, body).counter # objectIdCounter
             => Cardinality(createdIds) < MaxTodos
        /\ Finish(w, "create", NoPath, body,
                  createTodoResult(db, objectIdCounter, now, body))

deleteTodo(w) ==
    /\ proc = "running"
    /\ w \in inflight
    /\ \E path \in PathIds :
        Finish(w, "delete", path, NoBody, deleteTodoResult(db, objectIdCounter, path))

updateTodo(w) ==
    /\ proc = "running"
    /\ w \in inflight
    /\ \E path \in PathIds, body \in Bodies :
        Finish(w, "update", path, body,
               updateTodoResult(db, objectIdCounter, path, body))

\* a second passes
Tick ==
    /\ proc = "running"
    /\ \/ now < MaxClock
       \/ mainPc = "shutdown" /\ now < deadline
    /\ now' = now + 1
    /\ UNCHANGED <<db, objectIdCounter, inflight, History, Lifecycle>>

\* main.go:213-215, the goroutine enters ListenAndServe and the listener opens
ListenAndServe ==
    /\ proc = "running"
    /\ srvPc = "start"
    /\ mainPc = "wait"
    /\ srvPc' = "listening"
    /\ UNCHANGED <<db, objectIdCounter, now, inflight, History,
                   mainPc, proc, deadline, killed>>

\* main.go:219-222, main receives the interrupt, makes the 5 second context and
\* enters server.Shutdown, which closes the listener
Interrupt ==
    /\ proc = "running"
    /\ mainPc = "wait"
    /\ mainPc' = "shutdown"
    /\ deadline' = now + ShutdownTimeout
    /\ UNCHANGED <<db, objectIdCounter, now, inflight, History,
                   srvPc, proc, killed>>

\* main.go:222-225, Shutdown returns once no request is in flight or the context
\* has expired, and main returns
ShutdownReturns ==
    /\ proc = "running"
    /\ mainPc = "shutdown"
    /\ inflight = {} \/ now >= deadline
    /\ mainPc' = "returned"
    /\ proc' = "exited"
    /\ killed' = inflight
    /\ UNCHANGED <<db, objectIdCounter, now, inflight, History, srvPc, deadline>>

\* main.go:215-217, ListenAndServe returns a non-nil error (the port cannot be
\* bound, or http.ErrServerClosed once Shutdown was called) and log.Fatalf
\* exits the process
ListenFatal ==
    /\ proc = "running"
    /\ \/ srvPc = "start"
       \/ srvPc = "listening" /\ mainPc = "shutdown"
    /\ srvPc' = "fatal"
    /\ proc' = "exited"
    /\ killed' = inflight
    /\ UNCHANGED <<db, objectIdCounter, now, inflight, History, mainPc, deadline>>

\* the service under create, list, update and delete traffic, up to the
\* interrupt
Next ==
    \/ ListenAndServe
    \/ \E w \in Workers : Serve(w)
    \/ \E w \in Workers : fetchTodos(w)
    \/ \E w \in Workers : createTodo(w)
    \/ \E w \in Workers : deleteTodo(w)
    \/ \E w \in Workers : updateTodo(w)
    \/ Tick

Spec == Init /\ [][Next]_vars

\* the life of the process, from start to exit, under list traffic
NextLifecycle ==
    \/ ListenAndServe
    \/ \E w \in Workers : Serve(w)
    \/ \E w \in Workers : fetchTodos(w)
    \/ Tick
    \/ Interrupt
    \/ ShutdownReturns
    \/ ListenFatal

SpecLifecycle == Init /\ [][NextLifecycle]_vars

(* ------------------------- vocabulary of the claims -------------------- *)
\* a handler returned in this step
Handled == inflight' # inflight /\ inflight' \subseteq inflight

\* a syntactically valid object id: 24 hex digits
ValidObjectId(s) == Len(s) = 24 /\ \A i \in 1..24 : HexVal(s[i]) >= 0
\* 24 lowercase hex digits
LowerHex24(s) ==
    /\ Len(s) = 24
    /\ \A i \in 1..24 : HexVal(s[i]) >= 0 /\ s[i] = HexChars[HexVal(s[i]) + 1]
\* document d is the record the valid id names
Names(id, d) ==
    \A i \in 1..12 : d._id[i] = 16 * HexVal(id[2 * i - 1]) + HexVal(id[2 * i])
Exists(c, id) == \E d \in c : Names(id, d)
\* the title and the completed flag a decodable body asks for
TitleOf(body) == IF "title" \in DOMAIN body.fields THEN body.fields.title ELSE ""
CompletedOf(body) ==
    IF "completed" \in DOMAIN body.fields THEN body.fields.completed ELSE FALSE
\* the ids whose delete was answered 200
DeletedIds == DOMAIN okDeletes
\* the id the last request named in its path, trimmed
Target == TrimSpace(last.path)
\* the last request had a decodable body with a non-empty title
GoodBody == last.body.valid /\ TitleOf(last.body) # ""

(* C1: after updateTodo succeeds on an existing record with a well-formed  *)
(* id and a non-empty title, the stored record has the new title and       *)
(* completed value, and its id and created_at are the values it had before *)
(* the update.                                                             *)
C1_UpdateKeepsIdAndCreatedAt ==
    [][(Handled /\ last'.op = "update" /\ GoodBody' /\ last'.resp.status = StatusOK)
       => \A id \in {Target'}, req \in {last'.body} :
            (ValidObjectId(id) /\ Exists(db, id))
            => \E d \in db, e \in db' :
                 /\ Names(id, d)
                 /\ e._id = d._id
                 /\ e.title = TitleOf(req)
                 /\ e.completed = CompletedOf(req)
                 /\ "created_at" \in DOMAIN d
                      => "created_at" \in DOMAIN e /\ e.created_at = d.created_at]_vars

C3_InFlightRequestsGetTheGracePeriod ==
    (proc = "exited" /\ mainPc # "wait") => (killed = {} \/ now >= deadline)

C5_NoEmptyTitle ==
    \A d \in db : "title" \in DOMAIN d /\ d.title # ""

C5_Witness ==
    /\ last.op = "update"
    /\ last.resp.status = StatusBadRequest
    /\ ValidObjectId(Target)
    /\ Exists(db, Target)
    /\ \E d \in db : "created_at" \notin DOMAIN d

(* C6: deleting an id returned by an earlier create and not deleted since  *)
(* is answered 200 echoing that id, removes that record and leaves every   *)
(* other record unchanged; no later fetchTodos lists a deleted id.         *)
C6_DeleteRemovesTheRecord ==
    [][Handled =>
        /\ last'.op = "delete"
             => \A id \in {Target'} :
                  id \in createdIds \ DeletedIds
                  => /\ last'.resp.status = StatusOK
                     /\ last'.resp.todo_id = id
                     /\ Exists(db, id)
                     /\ db' = {d \in db : ~Names(id, d)}
        /\ last'.op = "fetch"
             => \A t \in last'.resp.data : t.ID \notin DeletedIds]_vars

C6_Witness ==
    /\ last.op = "fetch"
    /\ DeletedIds # {}
    /\ last.resp.data # {}
    /\ \A t \in last.resp.data : t.ID \notin DeletedIds

(* C7: a delete or update whose path id, trimmed, is not a syntactically   *)
(* valid object id is answered 400 whatever its body, and the collection   *)
(* is unchanged.                                                           *)
C7_InvalidIdIs400 ==
    [][(Handled /\ last'.op \in {"delete", "update"})
       => \A id \in {Target'} :
            ~ValidObjectId(id)
            => /\ last'.resp.status = StatusBadRequest
               /\ db' = db]_vars

C7_Witness ==
    /\ last.op = "update"
    /\ ~ValidObjectId(Target)
    /\ Len(Target) = 24
    /\ ~last.body.valid
    /\ last.resp.status = StatusBadRequest
    /\ db # {}

(* C8: a create request with title "" is answered 400 for every value of   *)
(* the completed field and inserts nothing.                                *)
C8_EmptyTitleIs400 ==
    [][(/\ Handled
        /\ last'.op = "create"
        /\ last'.body.valid
        /\ TitleOf(last'.body) = "")
       => /\ last'.resp.status = StatusBadRequest
          /\ db' = db]_vars

C8_Witness ==
    /\ last.op = "create"
    /\ last.body.valid
    /\ "title" \in DOMAIN last.body.fields
    /\ last.body.fields.title = ""
    /\ CompletedOf(last.body)
    /\ last.resp.status = StatusBadRequest

(* C9: deleting a well-formed id that matches no record is answered with   *)
(* the processing status 102 echoing the id, never 200, and leaves the     *)
(* collection unchanged.                                                   *)
C9_DeleteOfMissingIdIs102 ==
    [][(Handled /\ last'.op = "delete")
       => \A id \in {Target'} :
            (ValidObjectId(id) /\ ~Exists(db, id))
            => /\ last'.resp.status = StatusProcessing
               /\ last'.resp.todo_id = id
               /\ db' = db]_vars

C9_Witness ==
    /\ last.op = "delete"
    /\ ValidObjectId(Target)
    /\ Target \notin createdIds
    /\ last.resp.status = StatusProcessing
    /\ last.resp.todo_id = Target
    /\ db # {}

(* C10: of the delete requests for one record, concurrent or not, exactly  *)
(* one is answered 200 and every other 102: no id has two 200 answers, a   *)
(* delete that was in flight while another removed its record is answered  *)
(* 102, and once a delete of a created id has returned the record is gone. *)
C10_OneDeleteWins ==
    /\ \A id \in DeletedIds : okDeletes[id] = 1
    /\ last.raced => last.resp.status = StatusProcessing
    /\ last.op = "delete"
         => \A id \in {Canonical(last.path)} :
              id \in createdIds
              => /\ id \in DeletedIds
                 /\ ~Exists(db, id)
                 /\ last.resp.status \in {StatusOK, StatusProcessing}

C10_Witness ==
    /\ last.op = "delete"
    /\ last.raced
    /\ last.resp.status = StatusProcessing
    /\ okDeletes[Canonical(last.path)] = 1

=============================================================================
